---- MODULE Spec2Model ----
(***************************************************************************)
(* Model of ignite/handlers/early_stopping.py: NoImprovementHandler, the   *)
(* patience-based non-improvement tracker, and EarlyStopping, its stopping *)
(* specialization.                                                         *)
(*                                                                         *)
(* Scores and min_delta are Python numbers; they are modelled as integers  *)
(* (a fixed-point scale), on which <=, > and + are exact.  best_score is   *)
(* Optional[float]: None is the empty sequence, a recorded score v is <<v>>.*)
(***************************************************************************)
EXTENDS Integers, Sequences, FiniteSets

\* ---- bounds of the model ----
MaxScore == 2
MaxDelta == 2
MaxPatience == 2
MaxCalls == 4
MaxSerialCalls == 1
MaxFollowUps == 2
MaxLoadCounter == 2

Scores == 0..MaxScore
None == <<>>
Some(v) == <<v>>

\* The engines of a run: the trainer the handler controls and the evaluator
\* the handler is attached to.
Engines == {"trainer", "evaluator"}

VARIABLES
    phase,             \* "new" (before __init__), "live" (object exists), "failed" (__init__ raised)
    cls,               \* the class constructed: "NoImprovementHandler" or "EarlyStopping"
    error,             \* exception raised by the last operation, or "none"
    patience, score_function, pass_function, stop_function, trainer,
    counter, best_score, min_delta, cumulative_delta,
    engine,            \* the engine argument of the last __call__
    invoked,           \* callbacks invoked by the last __call__: sequence of [fn, arg]
    terminate_calls,   \* engines on which terminate() was called by the last __call__
    log,               \* messages logged by the last __call__
    hist,              \* one record per completed __call__ since construction
    op,                \* the last operation: "none", "init", "call", "state_dict", "load_state_dict"
    init_args,         \* the arguments of the last __init__, <<>> before it
    mapping,           \* the mapping state_dict returned or load_state_dict was given last
    twin,              \* a second tracker of the same configuration, <<>> while there is none
    module,            \* docs: the module an autosummary directive documents
    options,           \* docs: the options of the directive
    content,           \* docs: the content of the directive, a sequence of names
    docs_phase         \* docs: "idle", "ran" (run returned) or "raised"

config == <<patience, score_function, pass_function, stop_function, trainer,
            min_delta, cumulative_delta>>
vars == <<phase, cls, error, patience, score_function, pass_function, stop_function,
          trainer, counter, best_score, min_delta, cumulative_delta, engine, invoked,
          terminate_calls, log, hist, op, init_args, mapping, twin,
          module, options, content, docs_phase>>
docs == <<module, options, content, docs_phase>>

\* ---- the documented module (docs/source/conf.py) ----
\* The names a module may bind, in the order getmembers lists them (sorted).
Sorted == <<"Metric", "_helper", "accuracy">>
Names == {Sorted[k] : k \in 1..Len(Sorted)}

\* name.startswith("_")
startswith_underscore(n) == n = "_helper"

\* A name the module does not bind.
Absent == [kind |-> "absent", defined_in |-> "none", doc |-> FALSE]

\* What a module may bind to a name: a class or function with its __module__
\* (this module or another one) and with or without a docstring, or some
\* other object.
Attrs ==
    {Absent}
    \cup [kind : {"class", "function"}, defined_in : {"this", "elsewhere"}, doc : BOOLEAN]
    \cup [kind : {"other"}, defined_in : {"none"}, doc : BOOLEAN]

\* A module with no members and no __all__, and a directive that has not run.
NoDocs ==
    /\ module = [members |-> [n \in Names |-> Absent], all |-> <<>>]
    /\ options = {}
    /\ content = <<>>
    /\ docs_phase = "idle"

\* The tracker before construction.
InitTracker ==
    /\ phase = "new"
    /\ cls = "none"
    /\ error = "none"
    /\ patience = 0
    /\ score_function = "unset"
    /\ pass_function = "unset"
    /\ stop_function = "unset"
    /\ trainer = "unset"
    /\ counter = 0
    /\ best_score = None
    /\ min_delta = 0
    /\ cumulative_delta = FALSE
    /\ engine = "unset"
    /\ invoked = <<>>
    /\ terminate_calls = <<>>
    /\ log = <<>>
    /\ hist = <<>>
    /\ op = "none"
    /\ init_args = <<>>
    /\ mapping = <<>>
    /\ twin = <<>>

Init == InitTracker /\ NoDocs

\* ---- NoImprovementHandler.__init__ ----
callable(f) == f # "not_callable"
isEngine(t) == t \in Engines

\* Variant: a patience of 0 is accepted.
init_error_allows_zero(p, sf, pf, stf, tr, md) ==
    IF ~callable(sf) THEN "TypeError"
    ELSE IF ~callable(pf) THEN "TypeError"
    ELSE IF ~callable(stf) THEN "TypeError"
    ELSE IF ~isEngine(tr) THEN "TypeError"
    ELSE IF p < 0 THEN "ValueError"
    ELSE IF md < 0 THEN "ValueError"
    ELSE "none"

\* The exception __init__ raises for the arguments, or "none".
init_error(p, sf, pf, stf, tr, md) ==
    IF ~callable(sf) THEN "TypeError"
    ELSE IF ~callable(pf) THEN "TypeError"
    ELSE IF ~callable(stf) THEN "TypeError"
    ELSE IF ~isEngine(tr) THEN "TypeError"
    ELSE IF p < 1 THEN "ValueError"
    ELSE IF md < 0 THEN "ValueError"
    ELSE "none"

NoImprovementHandler_init(c, p, sf, pf, stf, tr, md, cd) ==
    /\ phase = "new"
    /\ cls' = c
    /\ op' = "init"
    /\ init_args' = <<[patience |-> p, score_function |-> sf, pass_function |-> pf,
                       stop_function |-> stf, trainer |-> tr, min_delta |-> md,
                       cumulative_delta |-> cd]>>
    /\ error' = init_error(p, sf, pf, stf, tr, md)
    /\ IF init_error(p, sf, pf, stf, tr, md) # "none"
       THEN /\ phase' = "failed"
            /\ UNCHANGED <<config, counter, best_score>>
       ELSE /\ phase' = "live"
            /\ patience' = p
            /\ score_function' = sf
            /\ pass_function' = pf
            /\ stop_function' = stf
            /\ trainer' = tr
            /\ counter' = 0
            /\ best_score' = None
            /\ min_delta' = md
            /\ cumulative_delta' = cd
    /\ UNCHANGED <<docs, engine, invoked, terminate_calls, log, hist, mapping, twin>>

ScoreFns == {"score_function", "not_callable"}
PassFns == {"pass_function", "not_callable"}
StopFns == {"stop_function", "not_callable"}
Trainers == {"trainer", "not_engine"}

Construct ==
    \E p \in 0..MaxPatience, sf \in ScoreFns, pf \in PassFns, stf \in StopFns,
       tr \in Trainers, md \in -1..MaxDelta, cd \in BOOLEAN :
        NoImprovementHandler_init("NoImprovementHandler", p, sf, pf, stf, tr, md, cd)

\* ---- EarlyStopping.__init__ ----
EarlyStopping_init(p, sf, tr, md, cd) ==
    NoImprovementHandler_init("EarlyStopping", p, sf, "EarlyStopping.pass_function",
                              "EarlyStopping.stop_function", tr, md, cd)

ConstructEarlyStopping ==
    \E p \in 0..MaxPatience, sf \in ScoreFns, tr \in Trainers,
       md \in -1..MaxDelta, cd \in BOOLEAN :
        EarlyStopping_init(p, sf, tr, md, cd)

\* ---- NoImprovementHandler._update_state ----
\* Variant: an improvement records the score but keeps the counter.
update_state_keeps_counter(c, b, md, cd, s) ==
    IF b = None
    THEN [counter |-> c, best_score |-> Some(s)]
    ELSE IF s <= b[1] + md
    THEN [counter |-> c + 1,
          best_score |-> IF ~cd /\ s > b[1] THEN Some(s) ELSE b]
    ELSE [counter |-> c, best_score |-> Some(s)]

\* Variant: a score equal to best + min_delta is taken for an improvement.
update_state_strict(c, b, md, cd, s) ==
    IF b = None
    THEN [counter |-> c, best_score |-> Some(s)]
    ELSE IF s < b[1] + md
    THEN [counter |-> c + 1,
          best_score |-> IF ~cd /\ s > b[1] THEN Some(s) ELSE b]
    ELSE [counter |-> 0, best_score |-> Some(s)]

\* Variant: the first call counts as a non-improvement.
update_state_first_counts(c, b, md, cd, s) ==
    IF b = None
    THEN [counter |-> c + 1, best_score |-> Some(s)]
    ELSE IF s <= b[1] + md
    THEN [counter |-> c + 1,
          best_score |-> IF ~cd /\ s > b[1] THEN Some(s) ELSE b]
    ELSE [counter |-> 0, best_score |-> Some(s)]

\* Variant: the cumulative_delta flag is ignored.
update_state_ignores_cumulative(c, b, md, cd, s) ==
    IF b = None
    THEN [counter |-> c, best_score |-> Some(s)]
    ELSE IF s <= b[1] + md
    THEN [counter |-> c + 1,
          best_score |-> IF s > b[1] THEN Some(s) ELSE b]
    ELSE [counter |-> 0, best_score |-> Some(s)]

\* Variant: a small improvement (within min_delta) does not count toward patience.
update_state_small_gain_free(c, b, md, cd, s) ==
    IF b = None
    THEN [counter |-> c, best_score |-> Some(s)]
    ELSE IF s <= b[1] + md
    THEN [counter |-> IF s > b[1] THEN c ELSE c + 1,
          best_score |-> IF ~cd /\ s > b[1] THEN Some(s) ELSE b]
    ELSE [counter |-> 0, best_score |-> Some(s)]

\* Variant: the flag is read the wrong way round, so cumulative mode records
\* every non-improving score as best.
update_state_flag_inverted(c, b, md, cd, s) ==
    IF b = None
    THEN [counter |-> c, best_score |-> Some(s)]
    ELSE IF s <= b[1] + md
    THEN [counter |-> c + 1,
          best_score |-> IF cd \/ s > b[1] THEN Some(s) ELSE b]
    ELSE [counter |-> 0, best_score |-> Some(s)]

\* Variant: a small improvement never updates best, whatever the mode.
update_state_always_cumulative(c, b, md, cd, s) ==
    IF b = None
    THEN [counter |-> c, best_score |-> Some(s)]
    ELSE IF s <= b[1] + md
    THEN [counter |-> c + 1, best_score |-> b]
    ELSE [counter |-> 0, best_score |-> Some(s)]

\* Variant: an improvement takes one off the counter.
update_state_decrements(c, b, md, cd, s) ==
    IF b = None
    THEN [counter |-> c, best_score |-> Some(s)]
    ELSE IF s <= b[1] + md
    THEN [counter |-> c + 1,
          best_score |-> IF ~cd /\ s > b[1] THEN Some(s) ELSE b]
    ELSE [counter |-> c - 1, best_score |-> Some(s)]

\* The counter and best score after observing score s.
update_state(c, b, md, cd, s) ==
    IF b = None
    THEN [counter |-> c, best_score |-> Some(s)]
    ELSE IF s <= b[1] + md
    THEN [counter |-> c + 1,
          best_score |-> IF ~cd /\ s > b[1] THEN Some(s) ELSE b]
    ELSE [counter |-> 0, best_score |-> Some(s)]

\* ---- the callbacks ----
\* Variant: EarlyStopping's continue action also terminates the trainer.
call_function_pass_terminates(fn, arg) ==
    IF fn \in {"EarlyStopping.stop_function", "EarlyStopping.pass_function"}
    THEN [invoked |-> <<[fn |-> fn, arg |-> arg]>>,
          log |-> <<"EarlyStopping: Stop training">>,
          terminate_calls |-> <<arg>>]
    ELSE [invoked |-> <<[fn |-> fn, arg |-> arg]>>,
          log |-> <<>>,
          terminate_calls |-> <<>>]

\* The effect of calling callback fn with argument arg.  The injected callbacks
\* of the generic tracker are opaque; EarlyStopping's are its own methods.
call_function(fn, arg) ==
    IF fn = "EarlyStopping.stop_function"
    THEN [invoked |-> <<[fn |-> fn, arg |-> arg]>>,
          log |-> <<"EarlyStopping: Stop training">>,
          terminate_calls |-> <<arg>>]
    ELSE [invoked |-> <<[fn |-> fn, arg |-> arg]>>,
          log |-> <<>>,
          terminate_calls |-> <<>>]

\* Variant: the callback is handed the engine that triggered the call.
decide_passes_engine(c, p, stf, pf, tr, eng) ==
    IF c >= p THEN call_function(stf, eng) ELSE call_function(pf, eng)

\* Variant: the limit is reached only when the counter exceeds patience.
decide_exceeds(c, p, stf, pf, tr, eng) ==
    IF c > p THEN call_function(stf, tr) ELSE call_function(pf, tr)

\* Variant: the limit is reached one call early.
decide_one_early(c, p, stf, pf, tr, eng) ==
    IF c >= p - 1 THEN call_function(stf, tr) ELSE call_function(pf, tr)

\* Variant: the limit callback fires only on the call that reaches patience.
decide_only_at_limit(c, p, stf, pf, tr, eng) ==
    IF c = p THEN call_function(stf, tr) ELSE call_function(pf, tr)

\* The decision of __call__ after the state update.
decide(c, p, stf, pf, tr, eng) ==
    IF c >= p THEN call_function(stf, tr) ELSE call_function(pf, tr)

\* ---- NoImprovementHandler.__call__ ----
NoImprovementHandler_call(eng, s) ==
    /\ phase = "live"
    /\ Len(hist) < MaxCalls
    /\ LET st == update_state(counter, best_score, min_delta, cumulative_delta, s)
           eff == decide(st.counter, patience, stop_function, pass_function, trainer, eng)
       IN /\ counter' = st.counter
          /\ best_score' = st.best_score
          /\ invoked' = eff.invoked
          /\ terminate_calls' = eff.terminate_calls
          /\ log' = eff.log
          /\ hist' = Append(hist, [score |-> s,
                                   prev_counter |-> counter,
                                   prev_best |-> best_score,
                                   counter |-> st.counter,
                                   best_score |-> st.best_score,
                                   invoked |-> eff.invoked,
                                   terminate_calls |-> eff.terminate_calls])
    /\ engine' = eng
    /\ error' = "none"
    /\ op' = "call"
    /\ UNCHANGED <<docs, phase, cls, config, init_args, mapping>>

\* Variant: a failing score function is caught and counted as a non-improvement.
NoImprovementHandler_call_swallows(eng) ==
    /\ phase = "live"
    /\ engine' = eng
    /\ error' = "ScoreError"
    /\ counter' = counter + 1
    /\ invoked' = decide(counter + 1, patience, stop_function, pass_function, trainer, eng).invoked
    /\ terminate_calls' = <<>>
    /\ log' = <<>>
    /\ op' = "call"
    /\ UNCHANGED <<docs, phase, cls, config, best_score, hist, init_args, mapping, twin>>

\* The score function raises: the exception leaves __call__ before any update.
NoImprovementHandler_call_raises(eng) ==
    /\ phase = "live"
    /\ engine' = eng
    /\ error' = "ScoreError"
    /\ invoked' = <<>>
    /\ terminate_calls' = <<>>
    /\ log' = <<>>
    /\ op' = "call"
    /\ UNCHANGED <<docs, phase, cls, config, counter, best_score, hist, init_args, mapping, twin>>

Call ==
    /\ cls = "NoImprovementHandler"
    /\ \E eng \in Engines, s \in Scores : NoImprovementHandler_call(eng, s)
    /\ UNCHANGED twin

\* ---- EarlyStopping.__call__ ----
EarlyStopping_call(eng, s) == NoImprovementHandler_call(eng, s)

CallEarlyStopping ==
    /\ cls = "EarlyStopping"
    /\ \E eng \in Engines, s \in Scores : EarlyStopping_call(eng, s)
    /\ UNCHANGED twin

CallScoreRaises ==
    \E eng \in Engines : NoImprovementHandler_call_raises(eng)

Next ==
    \/ Construct
    \/ ConstructEarlyStopping
    \/ Call
    \/ CallEarlyStopping
    \/ CallScoreRaises

Spec == Init /\ [][Next]_vars

\* ---- NoImprovementHandler.state_dict ----
\* Variant: the cast turns a missing best score into 0.
state_dict_casts_none(c, b) ==
    [counter |-> c, best_score |-> IF b = None THEN Some(0) ELSE b]

\* The mapping state_dict returns; typing.cast returns its argument as it is.
state_dict(c, b) == [counter |-> c, best_score |-> b]

StateDict ==
    /\ phase = "live"
    /\ twin = <<>>
    /\ op' = "state_dict"
    /\ mapping' = state_dict(counter, best_score)
    /\ error' = "none"
    /\ UNCHANGED <<docs, phase, cls, config, counter, best_score, engine, invoked,
                   terminate_calls, log, hist, init_args, twin>>

\* ---- load_state_dict ----
\* The keys a class requires of a mapping: EarlyStopping names both, the
\* generic tracker's class body names none.
state_dict_all_req_keys(c) ==
    IF c = "EarlyStopping" THEN {"counter", "best_score"} ELSE {}

\* Serializable.load_state_dict: the exception for a mapping that lacks a
\* required key, or "none".
Serializable_load_state_dict(req, sd) ==
    IF \E k \in req : k \notin DOMAIN sd THEN "ValueError" ELSE "none"

\* Variant: a negative counter is raised to 0 on restore.
load_state_dict_clamps(c, b, req, sd) ==
    IF Serializable_load_state_dict(req, sd) # "none"
    THEN [error |-> Serializable_load_state_dict(req, sd), counter |-> c, best_score |-> b]
    ELSE IF "counter" \notin DOMAIN sd
    THEN [error |-> "KeyError", counter |-> c, best_score |-> b]
    ELSE IF "best_score" \notin DOMAIN sd
    THEN [error |-> "KeyError", counter |-> sd.counter, best_score |-> b]
    ELSE [error |-> "none",
          counter |-> IF sd.counter < 0 THEN 0 ELSE sd.counter,
          best_score |-> sd.best_score]

\* The exception, counter and best score load_state_dict leaves behind on a
\* tracker with counter c and best score b: the base class check, then the
\* two assignments in order, each reading its key.
load_state_dict(c, b, req, sd) ==
    IF Serializable_load_state_dict(req, sd) # "none"
    THEN [error |-> Serializable_load_state_dict(req, sd), counter |-> c, best_score |-> b]
    ELSE IF "counter" \notin DOMAIN sd
    THEN [error |-> "KeyError", counter |-> c, best_score |-> b]
    ELSE IF "best_score" \notin DOMAIN sd
    THEN [error |-> "KeyError", counter |-> sd.counter, best_score |-> b]
    ELSE [error |-> "none", counter |-> sd.counter, best_score |-> sd.best_score]

NoImprovementHandler_load_state_dict(sd) ==
    /\ phase = "live"
    /\ twin = <<>>
    /\ LET r == load_state_dict(counter, best_score, state_dict_all_req_keys(cls), sd)
       IN /\ error' = r.error
          /\ counter' = r.counter
          /\ best_score' = r.best_score
    /\ op' = "load_state_dict"
    /\ mapping' = sd
    /\ UNCHANGED <<docs, phase, cls, config, engine, invoked, terminate_calls, log, hist,
                   init_args, twin>>

\* The values a supplied mapping may carry: nothing validates them.
LoadCounters == -1..MaxLoadCounter
LoadBests == {None} \cup {Some(v) : v \in Scores}

LoadStateDict ==
    \/ \E c \in LoadCounters, b \in LoadBests :
          NoImprovementHandler_load_state_dict([counter |-> c, best_score |-> b])
    \/ \E c \in LoadCounters : NoImprovementHandler_load_state_dict([counter |-> c])
    \/ \E b \in LoadBests : NoImprovementHandler_load_state_dict([best_score |-> b])
    \/ NoImprovementHandler_load_state_dict(<<>>)

\* ---- save, restore into a fresh tracker, and run both ----
\* A tracker of the same class and configuration, as __init__ leaves it.
FreshTwin == [counter |-> 0, best_score |-> None, error |-> "none",
              invoked |-> <<>>, terminate_calls |-> <<>>, calls |-> 0]

\* The twin after load_state_dict(sd).
twin_load(tw, sd) ==
    LET r == load_state_dict(tw.counter, tw.best_score, state_dict_all_req_keys(cls), sd)
    IN [tw EXCEPT !.counter = r.counter, !.best_score = r.best_score, !.error = r.error]

\* The twin after __call__ observing score s.
twin_call(tw, eng, s) ==
    LET st == update_state(tw.counter, tw.best_score, min_delta, cumulative_delta, s)
        eff == decide(st.counter, patience, stop_function, pass_function, trainer, eng)
    IN [tw EXCEPT !.counter = st.counter, !.best_score = st.best_score,
                  !.error = "none", !.invoked = eff.invoked,
                  !.terminate_calls = eff.terminate_calls, !.calls = tw.calls + 1]

\* state_dict on the tracker, load_state_dict of the result on a fresh twin.
RoundTrip ==
    /\ phase = "live"
    /\ twin = <<>>
    /\ op' = "state_dict"
    /\ mapping' = state_dict(counter, best_score)
    /\ twin' = <<twin_load(FreshTwin, state_dict(counter, best_score))>>
    /\ error' = "none"
    /\ UNCHANGED <<docs, phase, cls, config, counter, best_score, engine, invoked,
                   terminate_calls, log, hist, init_args>>

\* The same engine and score are given to the tracker and to its twin.
CallBoth ==
    /\ twin # <<>>
    /\ twin[1].calls < MaxFollowUps
    /\ \E eng \in Engines, s \in Scores :
          /\ IF cls = "EarlyStopping"
             THEN EarlyStopping_call(eng, s)
             ELSE NoImprovementHandler_call(eng, s)
          /\ twin' = <<twin_call(twin[1], eng, s)>>

\* ---- the schedules of the serialization specifications ----
\* A restore precedes the invocations of a run (resuming from a checkpoint).
SerialLoad ==
    /\ hist = <<>>
    /\ LoadStateDict

\* Invocations of a single tracker, at most MaxSerialCalls of them.
SerialCall ==
    /\ twin = <<>>
    /\ Len(hist) < MaxSerialCalls
    /\ (Call \/ CallEarlyStopping)

NextSerial ==
    \/ Construct
    \/ ConstructEarlyStopping
    \/ SerialLoad
    \/ SerialCall
    \/ StateDict

SpecSerial == Init /\ [][NextSerial]_vars

\* Invocations of a tracker that was not restored, before it is saved.
FreshCall ==
    /\ op # "load_state_dict"
    /\ SerialCall

NextRoundTrip ==
    \/ Construct
    \/ ConstructEarlyStopping
    \/ SerialLoad
    \/ FreshCall
    \/ RoundTrip
    \/ CallBoth

SpecRoundTrip == Init /\ [][NextRoundTrip]_vars

\* ---- AutolistAutosummary.run (docs/source/conf.py) ----
tracker == <<phase, cls, error, patience, score_function, pass_function, stop_function,
             trainer, counter, best_score, min_delta, cumulative_delta, engine, invoked,
             terminate_calls, log, hist, op, init_args, mapping, twin>>

\* The options run looks for, in the order of its loop.
Autos == <<"autolist", "autolist-classes", "autolist-functions">>

isclass(a) == a.kind = "class"
isfunction(a) == a.kind = "function"

\* inspect.getmembers(module): the names the module binds, sorted.
getmembers(m) == SelectSeq(Sorted, LAMBDA n : m.members[n].kind # "absent")

\* Variant: classes are listed whatever module defines them.
cls_names_any_module(m) ==
    SelectSeq(getmembers(m), LAMBDA n : /\ isclass(m.members[n])
                                        /\ ~startswith_underscore(n))

\* The classes defined in the module under a public name.
cls_names(m) ==
    SelectSeq(getmembers(m), LAMBDA n : /\ isclass(m.members[n])
                                        /\ m.members[n].defined_in = "this"
                                        /\ ~startswith_underscore(n))

\* The functions defined in the module under a public name.
fn_names(m) ==
    SelectSeq(getmembers(m), LAMBDA n : /\ isfunction(m.members[n])
                                        /\ m.members[n].defined_in = "this"
                                        /\ ~startswith_underscore(n))

\* The names before filtering: __all__ if the module has one, else the
\* module's own public classes and functions, else (none of those) every
\* member of the module.
public_names(m) ==
    IF m.all # <<>> THEN m.all[1]
    ELSE IF cls_names(m) \o fn_names(m) = <<>> THEN getmembers(m)
    ELSE cls_names(m) \o fn_names(m)

\* The check of one option.
check(auto, a) ==
    IF auto = "autolist" THEN isclass(a) \/ isfunction(a)
    ELSE IF auto = "autolist-classes" THEN isclass(a)
    ELSE isfunction(a)

\* One pass of the loop body for option auto: getattr on a name the module
\* does not bind raises; otherwise the documented names of the selected kind.
autolist(m, auto) ==
    [error |-> \E k \in 1..Len(public_names(m)) :
                   m.members[public_names(m)[k]].kind = "absent",
     names |-> SelectSeq(public_names(m),
                         LAMBDA n : m.members[n].doc /\ check(auto, m.members[n]))]

\* The content after the loop has handled options k.. of Autos, from content c.
RECURSIVE run_from(_, _, _, _)
run_from(m, opts, c, k) ==
    IF k > Len(Autos) THEN [error |-> FALSE, content |-> c]
    ELSE IF Autos[k] \notin opts THEN run_from(m, opts, c, k + 1)
    ELSE IF autolist(m, Autos[k]).error THEN [error |-> TRUE, content |-> c]
    ELSE run_from(m, opts, autolist(m, Autos[k]).names, k + 1)

Run ==
    /\ docs_phase = "idle"
    /\ content' = run_from(module, options, content, 1).content
    /\ docs_phase' = IF run_from(module, options, content, 1).error THEN "raised" ELSE "ran"
    /\ UNCHANGED <<module, options, tracker>>

\* The __all__ lists: none, or a list of names in sorted order.
AllLists ==
    {<<>>} \cup {<<SelectSeq(Sorted, LAMBDA n : n \in S)>> : S \in SUBSET Names}

InitDocs ==
    /\ InitTracker
    /\ module \in [members : [Names -> Attrs], all : AllLists]
    /\ options \in SUBSET {Autos[k] : k \in 1..Len(Autos)}
    /\ content = <<>>
    /\ docs_phase = "idle"

NextDocs == Run

SpecDocs == InitDocs /\ [][NextDocs]_vars

\* ---- properties ----
Calls == 1..Len(hist)

\* The limit-reached (continue) callback is what the call recorded in r invoked.
StopFired(r) == \E k \in 1..Len(r.invoked) : r.invoked[k].fn = stop_function
PassFired(r) == \E k \in 1..Len(r.invoked) : r.invoked[k].fn = pass_function

\* r observed a score that is no improvement over the best recorded before it.
NonImproving(r) == r.prev_best # None /\ r.score <= r.prev_best[1] + min_delta
Improving(r) == r.prev_best # None /\ r.score > r.prev_best[1] + min_delta

\* C1: every completed invocation invokes exactly one callback, exactly once:
\* stop_function if the updated counter is >= patience and pass_function
\* otherwise, and the argument is the trainer given at construction, not the
\* engine of the invocation.
C1_ExactlyOneCallback ==
    /\ \A i \in Calls :
          /\ Len(hist[i].invoked) = 1
          /\ hist[i].invoked[1].arg = trainer
          /\ hist[i].invoked[1].fn =
                (IF hist[i].counter >= patience THEN stop_function ELSE pass_function)
    /\ (phase = "live" /\ error = "none" /\ hist # <<>>) =>
          /\ stop_function # pass_function
          /\ invoked = <<[fn |-> IF counter >= patience THEN stop_function
                                 ELSE pass_function,
                          arg |-> trainer]>>

\* A call triggered by the evaluator reached the limit and handed the trainer over.
C1_Witness ==
    /\ phase = "live" /\ error = "none" /\ hist # <<>>
    /\ engine = "evaluator" /\ engine # trainer
    /\ counter >= patience
    /\ invoked = <<[fn |-> stop_function, arg |-> trainer]>>

\* C2: a score > best + min_delta sets best to the score and the counter to
\* zero, whatever the counter was and in both cumulative_delta modes.
C2_ImprovementResets ==
    \A i \in Calls :
        Improving(hist[i]) =>
            /\ hist[i].best_score = Some(hist[i].score)
            /\ hist[i].counter = 0

\* An improvement arrived when the counter was already >= patience, in
\* cumulative mode.
C2_Witness ==
    \E i \in Calls :
        /\ Improving(hist[i])
        /\ hist[i].prev_counter >= patience
        /\ cumulative_delta
        /\ hist[i].counter = 0

\* C3: a score <= best + min_delta (equal to best and equal to best + min_delta
\* included) makes the counter the counter before plus 1, in both modes.
C3_NonImprovementIncrements ==
    \A i \in Calls :
        NonImproving(hist[i]) => hist[i].counter = hist[i].prev_counter + 1

\* A score exactly best + min_delta, min_delta > 0, was counted.
C3_Witness ==
    \E i \in Calls :
        /\ min_delta > 0
        /\ hist[i].prev_best # None
        /\ hist[i].score = hist[i].prev_best[1] + min_delta
        /\ hist[i].counter = hist[i].prev_counter + 1

\* C4: with no best recorded, a call records the score as best and leaves the
\* counter alone; the first call on a fresh tracker leaves the counter at 0
\* and invokes pass_function, never stop_function.
C4_FirstCallNeverCounts ==
    /\ \A i \in Calls :
          hist[i].prev_best = None =>
              /\ hist[i].best_score = Some(hist[i].score)
              /\ hist[i].counter = hist[i].prev_counter
    /\ hist # <<>> =>
          /\ patience >= 1
          /\ hist[1].prev_best = None
          /\ hist[1].counter = 0
          /\ PassFired(hist[1])
          /\ ~StopFired(hist[1])

\* The first call on a tracker of patience 1.
C4_Witness ==
    /\ Len(hist) = 1
    /\ patience = 1
    /\ hist[1].prev_best = None
    /\ best_score = Some(hist[1].score)
    /\ PassFired(hist[1])

\* C5: for best < score <= best + min_delta, cumulative_delta OFF sets best to
\* the score and ON leaves best unchanged, and both increment the counter; for
\* score <= best, best is unchanged in both modes.
C5_SmallImprovement ==
    \A i \in Calls :
        hist[i].prev_best # None =>
            LET b == hist[i].prev_best[1]
                s == hist[i].score
            IN /\ (b < s /\ s <= b + min_delta) =>
                     /\ hist[i].counter = hist[i].prev_counter + 1
                     /\ hist[i].best_score =
                           (IF cumulative_delta THEN hist[i].prev_best ELSE Some(s))
               /\ s <= b => hist[i].best_score = hist[i].prev_best

\* A small improvement strictly inside the margin, in cumulative mode, left best alone.
C5_Witness ==
    \E i \in Calls :
        /\ cumulative_delta
        /\ hist[i].prev_best # None
        /\ hist[i].prev_best[1] < hist[i].score
        /\ hist[i].score < hist[i].prev_best[1] + min_delta
        /\ hist[i].best_score = hist[i].prev_best
        /\ hist[i].best_score # Some(hist[i].score)
\* ---- sequences of invocations ----
\* Every call from a to b observed a non-improving score.
RunNonImproving(a, b) == \A j \in a..b : NonImproving(hist[j])

\* C6: along every sequence of consecutive non-improving calls the counter
\* goes up by exactly 1 per call, the limit-reached callback does not fire
\* while the counter is below patience, and its first firing in the sequence
\* is the call on which the counter reaches patience.
C6_NonImprovingRun ==
    \A a \in Calls : \A b \in a..Len(hist) :
        RunNonImproving(a, b) =>
            /\ \A i \in a..b :
                  hist[i].counter = hist[a].prev_counter + (i - a + 1)
            /\ hist[a].prev_counter < patience =>
                  \A i \in a..b :
                      (StopFired(hist[i]) /\ \A j \in a..(i - 1) : ~StopFired(hist[j]))
                          <=> hist[i].counter = patience

\* Patience 2: a first non-improving call continued, the second reached the limit.
C6_Witness ==
    \E a \in Calls :
        /\ patience = 2
        /\ a + 1 <= Len(hist)
        /\ RunNonImproving(a, a + 1)
        /\ hist[a].prev_counter = 0
        /\ PassFired(hist[a])
        /\ StopFired(hist[a + 1])
        /\ hist[a + 1].counter = patience

\* The number of consecutive non-improving calls ending at call i.
RECURSIVE Streak(_)
Streak(i) ==
    IF i = 0 THEN 0
    ELSE IF NonImproving(hist[i]) THEN 1 + Streak(i - 1)
    ELSE 0

\* C7: on a freshly constructed tracker the counter after a call is the number
\* of consecutive non-improving calls ending at it, and the limit-reached
\* callback fires on a call iff that call and the patience - 1 calls before
\* it were all non-improving.
C7_ConsecutiveNonImproving ==
    \A i \in Calls :
        /\ hist[i].counter = Streak(i)
        /\ StopFired(hist[i]) <=>
              /\ i - patience + 1 >= 1
              /\ RunNonImproving(i - patience + 1, i)

\* An improvement broke a streak, and a later streak of patience calls fired.
C7_Witness ==
    \E i \in Calls : \E k \in 1..(i - 1) :
        /\ StopFired(hist[i])
        /\ Improving(hist[k])
        /\ hist[k].prev_counter > 0
        /\ Streak(i) = patience

\* Each score exceeds the one before it by more than min_delta.
StrictlyIncreasing ==
    \A i \in 2..Len(hist) : hist[i].score > hist[i - 1].score + min_delta

\* C8: for strictly increasing scores fed to a fresh tracker, each exceeding
\* the previous by more than min_delta, the counter is 0 after every call and
\* the limit-reached callback is never invoked, in both modes.
C8_IncreasingScores ==
    StrictlyIncreasing =>
        /\ counter = 0
        /\ \A i \in Calls : hist[i].counter = 0 /\ ~StopFired(hist[i])

\* Three increasing scores in cumulative mode on a tracker of patience 1.
C8_Witness ==
    /\ Len(hist) = 3
    /\ StrictlyIncreasing
    /\ cumulative_delta
    /\ patience = 1
    /\ counter = 0
    /\ PassFired(hist[3])

\* C9: reaching the limit does not reset the counter: after a call on which
\* the counter reached patience, a further non-improving call increments the
\* counter and invokes the limit-reached callback again, and the counter is 0
\* or the continue callback is invoked only on a score > best + min_delta.
C9_NoResetAtLimit ==
    /\ \A i \in Calls :
          i < Len(hist) /\ hist[i].counter >= patience =>
              /\ hist[i + 1].prev_counter = hist[i].counter
              /\ hist[i + 1].prev_best = hist[i].best_score
              /\ NonImproving(hist[i + 1]) =>
                    /\ hist[i + 1].counter = hist[i].counter + 1
                    /\ StopFired(hist[i + 1])
              /\ (hist[i + 1].counter = 0 \/ PassFired(hist[i + 1])) =>
                    /\ hist[i + 1].score > hist[i].best_score[1] + min_delta
                    /\ hist[i + 1].counter = 0
                    /\ PassFired(hist[i + 1])
    /\ (hist # <<>> /\ hist[Len(hist)].counter >= patience) =>
          counter = hist[Len(hist)].counter

\* The limit fired twice in a row, then an improvement brought the counter to 0.
C9_Witness ==
    \E i \in Calls :
        /\ i + 2 <= Len(hist)
        /\ hist[i].counter = patience
        /\ StopFired(hist[i])
        /\ hist[i + 1].counter = patience + 1
        /\ StopFired(hist[i + 1])
        /\ hist[i + 2].counter = 0
        /\ PassFired(hist[i + 2])

\* The generic tracker's counter and best score after the first n scores of
\* hist, from the state __init__ leaves.
RECURSIVE GenericAfter(_)
GenericAfter(n) ==
    IF n = 0 THEN [counter |-> 0, best_score |-> None]
    ELSE update_state(GenericAfter(n - 1).counter, GenericAfter(n - 1).best_score,
                      min_delta, cumulative_delta, hist[n].score)

\* C10: EarlyStopping calls trainer.terminate() on a call iff the counter
\* after the update is >= patience, and otherwise touches no engine; its
\* counter and best score follow the generic tracker's transitions.
C10_EarlyStopping ==
    cls = "EarlyStopping" =>
        /\ \A i \in Calls :
              /\ hist[i].terminate_calls =
                    (IF hist[i].counter >= patience THEN <<trainer>> ELSE <<>>)
              /\ hist[i].counter = GenericAfter(i).counter
              /\ hist[i].best_score = GenericAfter(i).best_score
        /\ (phase = "live" /\ error = "none" /\ hist # <<>>) =>
              terminate_calls = (IF counter >= patience THEN <<trainer>> ELSE <<>>)
        /\ phase = "live" =>
              /\ counter = GenericAfter(Len(hist)).counter
              /\ best_score = GenericAfter(Len(hist)).best_score

\* An EarlyStopping of patience 2 continued without touching the trainer,
\* then requested termination.
C10_Witness ==
    /\ cls = "EarlyStopping"
    /\ patience = 2
    /\ error = "none"
    /\ Len(hist) >= 2
    /\ hist[Len(hist) - 1].terminate_calls = <<>>
    /\ hist[Len(hist) - 1].counter = 1
    /\ terminate_calls = <<"trainer">>
    /\ counter = 2
\* ---- construction ----
\* The arguments of the last __init__ fail one of its four type checks.
BadType(a) ==
    \/ a.score_function = "not_callable"
    \/ a.pass_function = "not_callable"
    \/ a.stop_function = "not_callable"
    \/ a.trainer = "not_engine"

\* The arguments of the last __init__ fail one of its two range checks.
BadValue(a) == a.patience < 1 \/ a.min_delta < 0

\* C11 as stated: construction fails with a type error in each of the six
\* cases (non-callable score, continue or limit callback, trainer no Engine,
\* patience < 1, min_delta < 0).
C11_AllTypeErrors ==
    init_args # <<>> =>
        ((BadType(init_args[1]) \/ BadValue(init_args[1])) =>
            (phase = "failed" /\ error = "TypeError"))

\* C11 amended: construction fails in each of the six cases, with TypeError
\* for a non-callable callback or a trainer that is no Engine and with
\* ValueError for patience < 1 or min_delta < 0 when the types are right; it
\* fails in __init__, before any invocation, so no tracker with patience < 1
\* or min_delta < 0 exists.
C11_ConstructionFails ==
    /\ init_args # <<>> =>
          /\ BadType(init_args[1]) => (phase = "failed" /\ error = "TypeError")
          /\ (~BadType(init_args[1]) /\ BadValue(init_args[1])) =>
                (phase = "failed" /\ error = "ValueError")
          /\ (~BadType(init_args[1]) /\ ~BadValue(init_args[1])) => phase = "live"
    /\ phase = "failed" => (hist = <<>> /\ op = "init" /\ invoked = <<>>)
    /\ phase = "live" => (patience >= 1 /\ min_delta >= 0)

\* An EarlyStopping was refused for a negative min_delta with a valid patience.
C11_Witness ==
    /\ phase = "failed"
    /\ cls = "EarlyStopping"
    /\ error = "ValueError"
    /\ init_args[1].min_delta < 0
    /\ init_args[1].patience >= 1
\* ---- serialization ----
\* C12: saving a tracker with state_dict and restoring the mapping into a
\* fresh tracker of the same configuration succeeds and gives the same
\* counter and best score, and after every follow-up call given to both the
\* two have made the same callback decision and hold the same counter and
\* best score.
C12_RoundTrip ==
    twin # <<>> =>
        /\ twin[1].error = "none"
        /\ twin[1].counter = counter
        /\ twin[1].best_score = best_score
        /\ twin[1].calls > 0 =>
              /\ twin[1].invoked = invoked
              /\ twin[1].terminate_calls = terminate_calls

\* A restored tracker (counter 2, a best score) was saved and restored again,
\* and after two follow-up calls both copies reached the limit.
C12_Witness ==
    /\ twin # <<>>
    /\ hist # <<>>
    /\ hist[1].prev_counter = 2
    /\ hist[1].prev_best # None
    /\ twin[1].calls = 2
    /\ twin[1].counter >= patience
    /\ twin[1].invoked = <<[fn |-> stop_function, arg |-> trainer]>>
\* The fields load_state_dict and state_dict have no business with.
others == <<phase, cls, config, engine, invoked, terminate_calls, log, hist, init_args>>

\* C13: a successful load_state_dict sets counter and best score to exactly
\* the supplied values, whatever they were and whatever is supplied, and
\* changes nothing else; state_dict returns exactly the two fields counter
\* and best_score, with the tracker's values, and changes no field.
C13_LoadAndSaveFrame ==
    [][/\ (op' = "load_state_dict" /\ error' = "none") =>
              /\ DOMAIN mapping' = {"counter", "best_score"}
              /\ counter' = mapping'.counter
              /\ best_score' = mapping'.best_score
              /\ UNCHANGED others
       /\ op' = "state_dict" =>
              /\ DOMAIN mapping' = {"counter", "best_score"}
              /\ mapping'.counter = counter
              /\ mapping'.best_score = best_score
              /\ UNCHANGED <<counter, best_score, others>>]_vars

\* A restore left a negative counter and no best score on a tracker of patience 1.
C13_Witness ==
    /\ op = "load_state_dict"
    /\ error = "none"
    /\ counter = -1
    /\ best_score = None
    /\ mapping.counter = -1
    /\ patience = 1
\* C14 as stated: the counter is a non-negative integer in every reachable
\* state, over construction, invocations, state_dict and load_state_dict.
C14_CounterNonNegative == counter \in Nat

\* C14 amended: the counter is an integer, and the only operation that makes
\* a non-negative counter negative is a load_state_dict whose mapping carries
\* a negative counter; construction, invocations, state_dict and restores of
\* non-negative counters keep it non-negative.
C14_OnlyLoadMakesNegative ==
    [][/\ counter' \in Int
       /\ (counter >= 0 /\ counter' < 0) =>
              /\ op' = "load_state_dict"
              /\ "counter" \in DOMAIN mapping'
              /\ mapping'.counter < 0]_vars

\* A counter of 0 was restored and a non-improving invocation raised it to 1.
C14_Witness ==
    /\ op = "call"
    /\ error = "none"
    /\ "counter" \in DOMAIN mapping
    /\ mapping.counter = 0
    /\ hist # <<>>
    /\ hist[1].prev_best # None
    /\ hist[1].prev_counter = 0
    /\ counter = 1
\* ---- the best score ----
\* C15: under cumulative_delta, across any sequence of invocations the
\* recorded best never falls below a best recorded earlier.
C15_BestNeverRegresses ==
    cumulative_delta =>
        /\ \A i \in Calls : \A j \in i..Len(hist) :
              hist[j].best_score[1] >= hist[i].best_score[1]
        /\ \A i \in Calls :
              hist[i].prev_best # None => hist[i].best_score[1] >= hist[i].prev_best[1]

\* Cumulative mode: best rose once, and a later lower score left it alone.
C15_Witness ==
    /\ cumulative_delta
    /\ \E i \in Calls : \E j \in (i + 1)..Len(hist) :
          /\ hist[i].prev_best # None
          /\ hist[i].best_score[1] > hist[i].prev_best[1]
          /\ hist[j].score < hist[i].best_score[1]
          /\ hist[j].best_score = hist[i].best_score

\* C16 as documented: with cumulative_delta False an invocation resets the
\* counter exactly when its score exceeds the score of the invocation just
\* before it by more than min_delta.
C16_IncreaseAfterLastEvent ==
    ~cumulative_delta =>
        \A i \in 2..Len(hist) :
            hist[i].counter = 0 <=> hist[i].score > hist[i - 1].score + min_delta

\* The last call at or before call i that recorded a counter of 0 after the
\* first call, or the first call.
RECURSIVE LastReset(_)
LastReset(i) ==
    IF i <= 1 THEN 1
    ELSE IF hist[i].counter = 0 THEN i
    ELSE LastReset(i - 1)

\* C17: with cumulative_delta True, on a fresh tracker the recorded best is
\* the score of the most recent call that reset the counter (the first call
\* if none did), and a call resets the counter exactly when its score
\* exceeds that score by more than min_delta.
C17_SinceLastReset ==
    cumulative_delta =>
        \A i \in Calls :
            /\ hist[i].best_score = Some(hist[LastReset(i)].score)
            /\ i >= 2 =>
                  (hist[i].counter = 0 <=>
                      hist[i].score > hist[LastReset(i - 1)].score + min_delta)

\* Cumulative mode: a score within min_delta of the score just before it
\* still reset the counter, being more than min_delta above the last reset.
C17_Witness ==
    /\ cumulative_delta
    /\ \E i \in 3..Len(hist) :
          /\ hist[i].counter = 0
          /\ hist[i].score <= hist[i - 1].score + min_delta
          /\ hist[i - 1].counter > 0
          /\ hist[i].score > hist[LastReset(i - 1)].score + min_delta

\* C18: when the score function fails during an invocation the failure
\* reaches the caller, neither callback is invoked, and counter and best
\* score stay as they were.
C18_ScoreFailure ==
    [][(op' = "call" /\ error' # "none") =>
          /\ error' = "ScoreError"
          /\ invoked' = <<>>
          /\ terminate_calls' = <<>>
          /\ counter' = counter
          /\ best_score' = best_score
          /\ hist' = hist]_vars

\* The score function failed on a tracker that had already reached its limit.
C18_Witness ==
    /\ op = "call"
    /\ error = "ScoreError"
    /\ invoked = <<>>
    /\ hist # <<>>
    /\ counter >= patience
    /\ counter = hist[Len(hist)].counter
    /\ best_score = hist[Len(hist)].best_score

\* C19 as stated: a load_state_dict that fails for a missing key leaves
\* counter and best score as they were, for both classes.
C19_FailedLoadChangesNothing ==
    [][(op' = "load_state_dict" /\ error' # "none") =>
          (counter' = counter /\ best_score' = best_score)]_vars

\* The largest of the first n scores observed.
RECURSIVE MaxScoreUpTo(_)
MaxScoreUpTo(n) ==
    IF n = 1 THEN hist[1].score
    ELSE IF hist[n].score > MaxScoreUpTo(n - 1) THEN hist[n].score
    ELSE MaxScoreUpTo(n - 1)

\* C20: with cumulative_delta False, on a fresh tracker the recorded best
\* after every invocation is the maximum of the scores observed so far.
C20_BestIsRunningMax ==
    ~cumulative_delta =>
        /\ \A i \in Calls : hist[i].best_score = Some(MaxScoreUpTo(i))
        /\ (phase = "live" /\ hist # <<>>) => best_score = Some(MaxScoreUpTo(Len(hist)))

\* Per-event mode: a gain within min_delta became the best while counting
\* toward patience, and a later lower score left that best in place.
C20_Witness ==
    /\ ~cumulative_delta
    /\ \E i \in 2..Len(hist) :
          /\ hist[i].score > hist[i].prev_best[1]
          /\ hist[i].counter = hist[i].prev_counter + 1
          /\ hist[i].best_score = Some(hist[i].score)
          /\ i < Len(hist)
          /\ hist[i + 1].score < hist[i].score
          /\ hist[i + 1].best_score = Some(hist[i].score)

\* The names the directive holds after run replaced its content.
Produced == {content[k] : k \in 1..Len(content)}

\* run completed and at least one autolist option made it replace the content.
Acted == docs_phase = "ran" /\ options # {}

\* The option whose pass wrote the final content: the last one present.
LastOption ==
    Autos[CHOOSE k \in 1..Len(Autos) :
              /\ Autos[k] \in options
              /\ \A j \in (k + 1)..Len(Autos) : Autos[j] \notin options]

\* The kinds of member an option selects.
SelectedKinds(auto) ==
    IF auto = "autolist" THEN {"class", "function"}
    ELSE IF auto = "autolist-classes" THEN {"class"}
    ELSE {"function"}

\* n is defined in the documented module under a name without a leading underscore.
OwnPublic(n) == module.members[n].defined_in = "this" /\ ~startswith_underscore(n)

\* The module defines a class or function of its own under a public name.
DefinesOwnPublic ==
    \E n \in Names : module.members[n].kind \in {"class", "function"} /\ OwnPublic(n)

\* Every produced name has a docstring and is of a kind an option present selects.
DocumentedOfSelectedKind ==
    \A n \in Produced :
        /\ module.members[n].doc
        /\ \E auto \in options : module.members[n].kind \in SelectedKinds(auto)

\* C21 as stated: without __all__ every produced name is defined in the module
\* and has no leading underscore; with __all__ every produced name is in that
\* list; every produced name has a docstring and is of the selected kind.
C21_OwnPublicWithoutAll ==
    Acted =>
        /\ module.all = <<>> => \A n \in Produced : OwnPublic(n)
        /\ module.all # <<>> =>
              \A n \in Produced : \E k \in 1..Len(module.all[1]) : module.all[1][k] = n
        /\ DocumentedOfSelectedKind

\* C21: without __all__, if the module defines a public class or function of
\* its own, every produced name is defined in the module and has no leading
\* underscore, and otherwise the produced names are drawn from all members of
\* the module; with __all__ every produced name is in that list; in all cases
\* every produced name has a docstring and is a class or function of the kind
\* selected by the last option present.
C21_ProducedNames ==
    Acted =>
        /\ (module.all = <<>> /\ DefinesOwnPublic) => \A n \in Produced : OwnPublic(n)
        /\ (module.all = <<>> /\ ~DefinesOwnPublic) =>
              Produced = {n \in Names : /\ module.members[n].doc
                                        /\ module.members[n].kind \in SelectedKinds(LastOption)}
        /\ module.all # <<>> =>
              \A n \in Produced : \E k \in 1..Len(module.all[1]) : module.all[1][k] = n
        /\ \A n \in Produced :
              /\ module.members[n].doc
              /\ module.members[n].kind \in SelectedKinds(LastOption)

\* A module without __all__ that defines a documented class and imports a
\* documented function: autolist lists the class and leaves the import out.
C21_Witness ==
    /\ Acted
    /\ module.all = <<>>
    /\ options = {"autolist"}
    /\ module.members["Metric"] = [kind |-> "class", defined_in |-> "this", doc |-> TRUE]
    /\ module.members["accuracy"] = [kind |-> "function", defined_in |-> "elsewhere", doc |-> TRUE]
    /\ content = <<"Metric">>
====
